---- MODULE Spec2Model ----
(***************************************************************************)
(* Model of the go-twitch client library (package twitch): the OAuth2      *)
(* handlers, the scope check and the resource operations of twitch.go and  *)
(* user.go.                                                                *)
(*                                                                         *)
(* Strings that end up in a URL are sequences of tokens.  A token is       *)
(* either one of the characters of Special or a run of characters that     *)
(* url.QueryEscape leaves alone (letters, digits, '-', '_', '.', '~').     *)
(* Goroutines calling into the library are the processes of Procs; a call  *)
(* that reaches httpClient.Do is split at the blocking call: the Call      *)
(* action runs the code up to and including httpClient.Do, the Return      *)
(* action takes whatever the transport answers and runs the rest.          *)
(***************************************************************************)
EXTENDS Integers, Sequences, FiniteSets, TLC

VARIABLES baseURI, httpClient, client, access, pc, inv, req, resp, ret,
          calls, sent, cbs, scope, required, out

vars == <<baseURI, httpClient, client, access, pc, inv, req, resp, ret,
          calls, sent, cbs, scope, required, out>>

\* ------------------------------------------------------------------ bounds

\* httpClient.Do calls the model lets the whole program make.
MaxCalls == 2

\* Longest scope list handed to NewAccess / Authorize.
MaxScopeLen == 2

Procs == {1, 2}

\* --------------------------------------------------------------- strings

Special == {" ", "&", "=", "+", "%", "/", ":", "?", ","}

Range(s) == {s[i] : i \in DOMAIN s}

\* url.QueryEscape on one token: a space becomes '+', every other reserved
\* character its %XX form, anything else is kept.
EscapeToken(t) ==
    CASE t = " " -> "+"
      [] t = "&" -> "%26"
      [] t = "=" -> "%3D"
      [] t = "+" -> "%2B"
      [] t = "%" -> "%25"
      [] t = "/" -> "%2F"
      [] t = ":" -> "%3A"
      [] t = "?" -> "%3F"
      [] t = "," -> "%2C"
      [] OTHER   -> t

QueryEscape_identity(s) == s

QueryEscape(s) == [i \in DOMAIN s |-> EscapeToken(s[i])]

\* url.QueryUnescape on one token, as the receiving server applies it.
UnescapeToken(t) ==
    CASE t = "+"   -> " "
      [] t = "%26" -> "&"
      [] t = "%3D" -> "="
      [] t = "%2B" -> "+"
      [] t = "%25" -> "%"
      [] t = "%2F" -> "/"
      [] t = "%3A" -> ":"
      [] t = "%3F" -> "?"
      [] t = "%2C" -> ","
      [] OTHER     -> t

QueryUnescape(s) == [i \in DOMAIN s |-> UnescapeToken(s[i])]

RECURSIVE Join(_, _)
Join_comma(elems, sep) ==
    IF Len(elems) = 0 THEN << >>
    ELSE IF Len(elems) = 1 THEN <<elems[1]>>
    ELSE <<elems[1], ",">> \o Join(Tail(elems), sep)

\* strings.Join over a list of one-token strings.
Join(elems, sep) ==
    IF Len(elems) = 0 THEN << >>
    ELSE IF Len(elems) = 1 THEN <<elems[1]>>
    ELSE <<elems[1], sep>> \o Join(Tail(elems), sep)

\* ------------------------------------------------------------ url.Values

EmptyValues == [k \in {} |-> << >>]

\* url.Values.Add: append the value to the key's list.
Add(v, key, value) ==
    IF key \in DOMAIN v
    THEN [v EXCEPT ![key] = Append(@, value)]
    ELSE v @@ (key :> <<value>>)

\* The keys the library uses, in the byte order url.Values.Encode sorts by.
KeyOrder == <<"client_id", "client_secret", "code", "grant_type", "limit",
              "offset", "redirect_uri", "response_type", "scope">>

RECURSIVE EncodeKey(_, _)
EncodeKey(key, values) ==
    IF Len(values) = 0 THEN << >>
    ELSE LET pair == <<key, "=">> \o QueryEscape(values[1])
         IN  IF Len(values) = 1 THEN pair
             ELSE pair \o <<"&">> \o EncodeKey(key, Tail(values))

RECURSIVE EncodeFrom(_, _)
EncodeFrom(v, keys) ==
    IF Len(keys) = 0 THEN << >>
    ELSE LET rest == EncodeFrom(v, Tail(keys))
             this == EncodeKey(keys[1], v[keys[1]])
         IN  IF Len(rest) = 0 THEN this ELSE this \o <<"&">> \o rest

\* url.Values.Encode: "key=escaped value" pairs joined by '&', keys sorted.
Encode(v) == EncodeFrom(v, SelectSeq(KeyOrder, LAMBDA k : k \in DOMAIN v))

\* Position of the first token t in s, or 0.
RECURSIVE IndexFrom(_, _, _)
IndexFrom(s, t, i) ==
    IF i > Len(s) THEN 0
    ELSE IF s[i] = t THEN i
    ELSE IndexFrom(s, t, i + 1)

Index(s, t) == IndexFrom(s, t, 1)

\* url.ParseQuery as the receiving server runs it on a raw query.
RECURSIVE ParseQuery(_)
ParseQuery(q) ==
    IF Len(q) = 0 THEN EmptyValues
    ELSE LET amp  == Index(q, "&")
             item == IF amp = 0 THEN q ELSE SubSeq(q, 1, amp - 1)
             rest == IF amp = 0 THEN << >> ELSE SubSeq(q, amp + 1, Len(q))
             eq   == Index(item, "=")
             key  == IF eq = 0 THEN item ELSE SubSeq(item, 1, eq - 1)
             val  == IF eq = 0 THEN << >> ELSE SubSeq(item, eq + 1, Len(item))
             tail == ParseQuery(rest)
         IN  IF Len(item) = 0 \/ Len(key) # 1 THEN tail
             ELSE LET k == UnescapeToken(key[1])
                      v == QueryUnescape(val)
                  IN  IF k \in DOMAIN tail
                      THEN [tail EXCEPT ![k] = <<v>> \o @]
                      ELSE tail @@ (k :> <<v>>)

\* uri.String() of a URL made of a path and a RawQuery.
URLString(path, rawQuery) ==
    IF Len(rawQuery) = 0 THEN path ELSE path \o <<"?">> \o rawQuery

\* The part of a URL string before its first '?'.
URLPath(u) == IF Index(u, "?") = 0 THEN u ELSE SubSeq(u, 1, Index(u, "?") - 1)

\* The part of a URL string after its first '?'.
URLQuery(u) ==
    IF Index(u, "?") = 0 THEN << >> ELSE SubSeq(u, Index(u, "?") + 1, Len(u))

\* ------------------------------------------------------- values and errors

Nil == [kind |-> "nil"]

\* fmt.Errorf of Access.ValidateScope.
ErrMissingScope(name) == [kind |-> "missing_scope", scope |-> name]

\* The url.Parse error http.NewRequest returns.
ErrNewRequest == [kind |-> "new_request"]

\* The error httpClient.Do returns.
ErrTransport == [kind |-> "transport"]

\* json: the body is not JSON (a syntax error or an unexpected end of input).
ErrSyntax == [kind |-> "json_syntax"]

\* json: the body is JSON that does not fit the target (UnmarshalTypeError).
ErrType == [kind |-> "json_type"]

ErrNotSubscribed == [kind |-> "not_subscribed"]

ErrNoProgram == [kind |-> "no_subscription_program"]

ErrDoesNotFollow(userID, channelID) ==
    [kind |-> "does_not_follow", userID |-> userID, channelID |-> channelID]

ErrCouldNotFollow(userID, channelID) ==
    [kind |-> "could_not_follow", userID |-> userID, channelID |-> channelID]

ErrUnfollow(userID, channelID) ==
    [kind |-> "unfollow_failed", userID |-> userID, channelID |-> channelID]

\* The zero values of the records the operations return.
ZeroUser == [ID |-> ""]

ZeroSubscription == [ID |-> ""]

ZeroFollow == [Channel |-> [ID |-> ""]]

ZeroFollows == [Total |-> 0]

ZeroBlock == [ID |-> ""]

ZeroAccess == [Token |-> << >>, Scope |-> << >>]

NoUsers == << >>

NewClient(clientID, secret, redirectURI) ==
    [clientID |-> clientID, secret |-> secret, redirectURI |-> redirectURI]

NewAccess(token, scopeList) == [Token |-> token, Scope |-> scopeList]

WithAccess(c, a) == [access |-> a, client |-> c]

ClientID(c) == c.clientID

Secret(c) == c.secret

RedirectURI(c) == c.redirectURI

\* ------------------------------------------------------------ scope check

RECURSIVE ScanScope(_, _, _)
ScanScope(list, i, name) ==
    IF i > Len(list) THEN ErrMissingScope(name)
    ELSE IF list[i] = name THEN Nil
    ELSE ScanScope(list, i + 1, name)

ValidateScope_firstOnly(a, name) ==
    IF Len(a.Scope) > 0 /\ a.Scope[1] = name THEN Nil ELSE ErrMissingScope(name)

\* Access.ValidateScope: the range loop over a.Scope.
ValidateScope(a, name) == ScanScope(a.Scope, 1, name)

validateScope_skipped(ac, name) == Nil

\* AccessClient.validateScope.
validateScope(ac, name) == ValidateScope(ac.access, name)

\* ------------------------------------------------------ requests, responses

NoBody == [present |-> FALSE, bytes |-> << >>]

\* bytes.NewBuffer(payload) as a request body.
Buffer(payload) == [present |-> TRUE, bytes |-> payload]

NoHeader == [k \in {} |-> << >>]

\* http.Header.Set.
Set(h, key, value) ==
    [k \in DOMAIN h \cup {key} |-> IF k = key THEN value ELSE h[k]]

AcceptV5 == <<"application/vnd.twitchtv.v5+json">>

NoReq == [method |-> "", url |-> << >>, body |-> NoBody, header |-> NoHeader]

\* http.NewRequest: fails when url.Parse rejects the URL.  A raw '%' token
\* stands for a percent sign that is not followed by two hex digits.
NewRequest(method, url, body) ==
    IF "%" \in Range(url)
    THEN [err |-> ErrNewRequest, request |-> NoReq]
    ELSE [err |-> Nil,
          request |-> [method |-> method, url |-> url, body |-> body,
                       header |-> NoHeader]]

WithHeaders(r, h) == [r EXCEPT !.request.header = h]

ClientHeaders(c) ==
    Set(Set(NoHeader, "Client-ID", ClientID(c)), "Accept", AcceptV5)

AccessHeaders(ac) ==
    Set(Set(Set(NoHeader, "Authorization", <<"OAuth", " ">> \o ac.access.Token),
            "Client-ID", ClientID(ac.client)), "Accept", AcceptV5)

AccessWriteHeaders(ac) ==
    Set(AccessHeaders(ac), "Content-Type", <<"application/json">>)

\* The request each make*Request helper hands to httpClient.Do, or the
\* error of http.NewRequest.
Client_makeGetRequest(c, uri) ==
    LET r == NewRequest("GET", uri, NoBody)
    IN  IF r.err # Nil THEN r ELSE WithHeaders(r, ClientHeaders(c))

AccessClient_makeGetRequest(ac, uri) ==
    LET r == NewRequest("GET", uri, NoBody)
    IN  IF r.err # Nil THEN r ELSE WithHeaders(r, AccessHeaders(ac))

AccessClient_makePutRequest(ac, uri, payload) ==
    LET r == NewRequest("PUT", uri, Buffer(payload))
    IN  IF r.err # Nil THEN r ELSE WithHeaders(r, AccessWriteHeaders(ac))

AccessClient_makeDeleteRequest(ac, uri) ==
    LET r == NewRequest("DELETE", uri, NoBody)
    IN  IF r.err # Nil THEN r ELSE WithHeaders(r, AccessHeaders(ac))

\* What a JSON object of the provider carries, as far as the records of the
\* model read it.
Doc == [id |-> "44322889", channel_id |-> "129454141", total |-> 1,
        users |-> <<[ID |-> "44322889"]>>,
        access_token |-> <<"0123456789abcdef">>,
        scope |-> <<"user_read">>]

ZeroDoc == [id |-> "", channel_id |-> "", total |-> 0, users |-> << >>,
            access_token |-> << >>, scope |-> << >>]

\* Response bodies: not JSON at all (an empty body included), JSON of the
\* wrong shape (an array where an object is expected), a JSON object.
Bodies == {[kind |-> "not_json", doc |-> ZeroDoc],
           [kind |-> "wrong_shape", doc |-> ZeroDoc],
           [kind |-> "object", doc |-> Doc]}

Statuses == {200, 204, 404, 422}

NoResp == [err |-> Nil, StatusCode |-> 0, Body |-> [kind |-> "none", doc |-> ZeroDoc]]

\* What httpClient.Do can return: an error, or a response.
Responses ==
    {[err |-> ErrTransport, StatusCode |-> 0,
      Body |-> [kind |-> "none", doc |-> ZeroDoc]]}
    \cup {[err |-> Nil, StatusCode |-> s, Body |-> b] : s \in Statuses, b \in Bodies}

\* json.NewDecoder(res.Body).Decode(&v): v keeps its value when decoding
\* fails, and takes the fields of the object otherwise.
Decode(body, zero, decoded) ==
    IF body.kind = "not_json" THEN [val |-> zero, err |-> ErrSyntax]
    ELSE IF body.kind = "wrong_shape" THEN [val |-> zero, err |-> ErrType]
    ELSE [val |-> decoded, err |-> Nil]

DecodeUser(body) == Decode(body, ZeroUser, [ID |-> body.doc.id])

DecodeUsers(body) == Decode(body, NoUsers, body.doc.users)

DecodeSubscription(body) == Decode(body, ZeroSubscription, [ID |-> body.doc.id])

DecodeFollow(body) ==
    Decode(body, ZeroFollow, [Channel |-> [ID |-> body.doc.channel_id]])

DecodeFollows(body) == Decode(body, ZeroFollows, [Total |-> body.doc.total])

DecodeBlock(body) == Decode(body, ZeroBlock, [ID |-> body.doc.id])

DecodeAccess(body) ==
    Decode(body, ZeroAccess,
           [Token |-> body.doc.access_token, Scope |-> body.doc.scope])

\* ------------------------------------------------------------------ inputs

ScopeNames == {"openid", "user_read", "user_subscriptions",
               "user_follows_edit", "user_blocks_edit"}

\* Every scope list of at most MaxScopeLen names, duplicates included.
ScopeLists == UNION {[1..n -> ScopeNames] : n \in 0..MaxScopeLen}

\* The scope list of the demo server.
DemoScope == <<"openid", "user_read", "user_subscriptions",
               "user_follows_edit", "user_blocks_edit">>

\* The scope lists the Access of the concurrent program is built from.
GrantedLists == {<< >>, DemoScope, <<"openid", "user_read", "user_read">>}

DemoToken == <<"m724mn6yvu28rx61kxdkmedomsuu75">>

\* A client as the demo server builds it, and one whose fields hold
\* characters that have to be escaped in a query.
Clients ==
    {NewClient(<<"abc123">>, <<"s3cret">>,
               <<"http", ":", "/", "/", "localhost", ":", "8080", "/",
                 "authorized">>),
     NewClient(<<"a", "&", "b">>, <<"x", "=", "y", " ", "z", "+">>,
               <<"app", ":", "/", "/", "cb", "?", "next", "=", "%", "2">>)}

\* User ids: two the provider could have issued, and one that makes the
\* request URL unparsable.
UserIDs == {<<"44322889">>, <<"129454141">>, <<"%", "zz">>}

\* The id of a channel, which is the id of the user who owns it.
ChannelIDs == {<<"23161357">>}

\* The "code" query parameter of the callback request; empty when absent.
Codes == {<< >>, <<"xyz", "&", "code", "=", "1">>}

NameLists == {<<"TehDotDev", "TehDot">>}

\* ------------------------------------------------------------------- OAuth

\* Client.getAuthorizeURI.
getAuthorizeURI(c, scopeList) ==
    LET q1 == Add(EmptyValues, "client_id", ClientID(c))
        q2 == Add(q1, "redirect_uri", RedirectURI(c))
        q3 == Add(q2, "response_type", <<"code">>)
        q4 == Add(q3, "scope", Join(scopeList, " "))
    IN  URLString(baseURI \o <<"/oauth2/authorize">>, Encode(q4))

\* http.Redirect for a URL that has a scheme: the status and the Location
\* header of the answer.
Redirect(url, code) == [StatusCode |-> code, Location |-> url]

\* The handler Client.Authorize returns.
Authorize(c, scopeList) == Redirect(getAuthorizeURI(c, scopeList), 302)

\* Client.getAccessToken up to httpClient.Do: the request, or the error of
\* http.NewRequest.
getAccessToken_call(c, authCode) ==
    LET q1 == Add(EmptyValues, "client_id", ClientID(c))
        q2 == Add(q1, "client_secret", Secret(c))
        q3 == Add(q2, "code", authCode)
        q4 == Add(q3, "grant_type", <<"authorization_code">>)
        q5 == Add(q4, "redirect_uri", RedirectURI(c))
    IN  NewRequest("POST",
                   URLString(baseURI \o <<"/oauth2/token">>, Encode(q5)),
                   NoBody)

getAccessToken_return_ignoreDecode(response) ==
    IF response.err # Nil THEN [val |-> ZeroAccess, err |-> response.err]
    ELSE [val |-> DecodeAccess(response.Body).val, err |-> Nil]

\* Client.getAccessToken after httpClient.Do.
getAccessToken_return(response) ==
    IF response.err # Nil THEN [val |-> ZeroAccess, err |-> response.err]
    ELSE DecodeAccess(response.Body)

\* ------------------------------------------------------ resource operations
\* For every operation, X_call is its code up to httpClient.Do (an error to
\* return at once, or the request to send) and X_return the code after it.

Early(err) == [err |-> err, request |-> NoReq]

GetUser_call(ac) ==
    IF validateScope(ac, "user_read") # Nil
    THEN Early(validateScope(ac, "user_read"))
    ELSE AccessClient_makeGetRequest(ac, baseURI \o <<"/user">>)

GetUser_return(response) ==
    IF response.err # Nil THEN [val |-> ZeroUser, err |-> response.err]
    ELSE DecodeUser(response.Body)

GetUserByID_call(c, id) == Client_makeGetRequest(c, baseURI \o <<"/user">>)

GetUserByID_return(response) ==
    IF response.err # Nil THEN [val |-> ZeroUser, err |-> response.err]
    ELSE DecodeUser(response.Body)

GetUsersByName_call(c, names) ==
    Client_makeGetRequest(
        c, baseURI \o <<"/users", "?", "login", "=">> \o Join(names, ","))

GetUsersByName_return(response) ==
    IF response.err # Nil THEN [val |-> NoUsers, err |-> response.err]
    ELSE DecodeUsers(response.Body)

GetUserSubscription_call(ac, userID, channelID) ==
    IF validateScope(ac, "user_subscriptions") # Nil
    THEN Early(validateScope(ac, "user_subscriptions"))
    ELSE AccessClient_makeGetRequest(
             ac, baseURI \o <<"/users/">> \o userID \o <<"/subscriptions/">>
                 \o channelID)

GetUserSubscription_return_no422(response) ==
    IF response.err # Nil THEN [val |-> ZeroSubscription, err |-> response.err]
    ELSE IF response.StatusCode = 404
    THEN [val |-> ZeroSubscription, err |-> ErrNotSubscribed]
    ELSE DecodeSubscription(response.Body)

GetUserSubscription_return(response) ==
    IF response.err # Nil THEN [val |-> ZeroSubscription, err |-> response.err]
    ELSE IF response.StatusCode = 404
    THEN [val |-> ZeroSubscription, err |-> ErrNotSubscribed]
    ELSE IF response.StatusCode = 422
    THEN [val |-> ZeroSubscription, err |-> ErrNoProgram]
    ELSE DecodeSubscription(response.Body)

Digit == <<"0", "1", "2", "3", "4", "5", "6", "7", "8", "9">>

RECURSIVE ItoaNat(_)
ItoaNat(n) ==
    IF n < 10 THEN <<Digit[n + 1]>>
    ELSE ItoaNat(n \div 10) \o <<Digit[(n % 10) + 1]>>

\* strconv.Itoa.
Itoa(n) == IF n < 0 THEN <<"-">> \o ItoaNat(0 - n) ELSE ItoaNat(n)

GetUserFollows_call(c, userID, limit, offset) ==
    LET q1 == Add(EmptyValues, "limit", Itoa(limit))
        q2 == Add(q1, "offset", Itoa(offset))
    IN  Client_makeGetRequest(
            c, baseURI \o <<"/users/">> \o userID
               \o <<"/follows/channels", "?">> \o Encode(q2))

GetUserFollows_return(response) ==
    IF response.err # Nil THEN [val |-> ZeroFollows, err |-> response.err]
    ELSE DecodeFollows(response.Body)

CheckUserFollowsChannel_call(c, userID, channelID) ==
    Client_makeGetRequest(
        c, baseURI \o <<"/users/">> \o userID \o <<"/follows/channels/">>
           \o channelID)

CheckUserFollowsChannel_return(userID, channelID, response) ==
    IF response.err # Nil THEN [val |-> ZeroFollow, err |-> response.err]
    ELSE IF response.StatusCode = 404
    THEN [val |-> ZeroFollow, err |-> ErrDoesNotFollow(userID, channelID)]
    ELSE DecodeFollow(response.Body)

\* json.Marshal of the notifications struct.
MarshalNotifications(notify) ==
    IF notify THEN <<"{\"notifications\":true}">>
    ELSE <<"{\"notifications\":false}">>

FollowChannel_call(ac, userID, channelID, notify) ==
    IF validateScope(ac, "user_follows_edit") # Nil
    THEN Early(validateScope(ac, "user_follows_edit"))
    ELSE AccessClient_makePutRequest(
             ac, baseURI \o <<"/users/">> \o userID \o <<"/follows/channels/">>
                 \o channelID,
             MarshalNotifications(notify))

FollowChannel_return(userID, channelID, response) ==
    IF response.err # Nil THEN [val |-> ZeroFollow, err |-> response.err]
    ELSE IF response.StatusCode = 422
    THEN [val |-> ZeroFollow, err |-> ErrCouldNotFollow(userID, channelID)]
    ELSE DecodeFollow(response.Body)

UnfollowChannel_call(ac, userID, channelID) ==
    IF validateScope(ac, "user_follows_edit") # Nil
    THEN Early(validateScope(ac, "user_follows_edit"))
    ELSE AccessClient_makeDeleteRequest(
             ac, baseURI \o <<"/users/">> \o userID \o <<"/follows/channels/">>
                 \o channelID)

\* UnfollowChannel returns an error only.
NoValue == [ID |-> ""]

UnfollowChannel_return_200(userID, channelID, response) ==
    IF response.err # Nil THEN [val |-> NoValue, err |-> response.err]
    ELSE IF response.StatusCode # 200
    THEN [val |-> NoValue, err |-> ErrUnfollow(userID, channelID)]
    ELSE [val |-> NoValue, err |-> Nil]

UnfollowChannel_return(userID, channelID, response) ==
    IF response.err # Nil THEN [val |-> NoValue, err |-> response.err]
    ELSE IF response.StatusCode # 204
    THEN [val |-> NoValue, err |-> ErrUnfollow(userID, channelID)]
    ELSE [val |-> NoValue, err |-> Nil]

BlockUser_call(ac, userID, blockedID) ==
    IF validateScope(ac, "user_blocks_edit") # Nil
    THEN Early(validateScope(ac, "user_blocks_edit"))
    ELSE AccessClient_makePutRequest(
             ac, baseURI \o <<"/users/">> \o userID \o <<"/blocks/">>
                 \o blockedID,
             << >>)

BlockUser_return(response) ==
    IF response.err # Nil THEN [val |-> ZeroBlock, err |-> response.err]
    ELSE DecodeBlock(response.Body)

\* ------------------------------------------------------------------- state

NoArgs == [userID |-> << >>, channelID |-> << >>, notify |-> FALSE,
           code |-> << >>, names |-> << >>, limit |-> 0, offset |-> 0]

\* An invocation: the operation, its arguments, and the copies of the Client
\* and the Access it got as its value receiver.
Invocation(op, args) == [op |-> op, args |-> args, c |-> client, a |-> access]

NoInv == [op |-> "none", args |-> NoArgs, c |-> NewClient(<< >>, << >>, << >>),
          a |-> ZeroAccess]

NoRet == [val |-> NoValue, err |-> Nil]

NoOut == [fn |-> "none"]

Receiver(i) == WithAccess(i.c, i.a)

Package == <<baseURI, httpClient>>

Caller == <<client, access>>

Pure == <<scope, required, out>>

\* func init(): the package-level settings.
PackageInit ==
    /\ baseURI = <<"https://api.twitch.tv/kraken">>
    /\ httpClient = "http.DefaultClient"

Init ==
    /\ PackageInit
    /\ client \in Clients
    /\ access \in {NewAccess(DemoToken, g) : g \in GrantedLists}
    /\ pc = [p \in Procs |-> "idle"]
    /\ inv = [p \in Procs |-> NoInv]
    /\ req = [p \in Procs |-> NoReq]
    /\ resp = [p \in Procs |-> NoResp]
    /\ ret = [p \in Procs |-> NoRet]
    /\ calls = 0
    /\ sent = [p \in Procs |-> 0]
    /\ cbs = [p \in Procs |-> 0]
    /\ scope = << >>
    /\ required = "openid"
    /\ out = NoOut

\* httpClient.Do(req): the request goes out and the caller blocks.
Do(p, i, request) ==
    /\ calls < MaxCalls
    /\ pc' = [pc EXCEPT ![p] = "waiting"]
    /\ inv' = [inv EXCEPT ![p] = i]
    /\ req' = [req EXCEPT ![p] = request]
    /\ calls' = calls + 1
    /\ sent' = [sent EXCEPT ![p] = @ + 1]
    /\ UNCHANGED <<resp, ret, cbs, Package, Caller, Pure>>

\* A return before any request was sent.
ReturnEarly(p, i, val, err) ==
    /\ pc' = [pc EXCEPT ![p] = "done"]
    /\ inv' = [inv EXCEPT ![p] = i]
    /\ ret' = [ret EXCEPT ![p] = [val |-> val, err |-> err]]
    /\ UNCHANGED <<req, resp, calls, sent, cbs, Package, Caller, Pure>>

\* The first half of an operation: r is what its X_call computed.
Call(p, i, r, zero) ==
    /\ pc[p] = "idle"
    /\ IF r.err # Nil THEN ReturnEarly(p, i, zero, r.err)
       ELSE Do(p, i, r.request)

\* The second half: httpClient.Do returned response, result is what the
\* operation's X_return makes of it.
Return(p, response, result) ==
    /\ pc' = [pc EXCEPT ![p] = "done"]
    /\ resp' = [resp EXCEPT ![p] = response]
    /\ ret' = [ret EXCEPT ![p] = result]
    /\ UNCHANGED <<inv, req, calls, sent, cbs, Package, Caller, Pure>>

Waiting(p, op) == pc[p] = "waiting" /\ inv[p].op = op

\* ----------------------------------------------------------------- actions

GetUserCall(p) ==
    LET i == Invocation("GetUser", NoArgs)
    IN  Call(p, i, GetUser_call(Receiver(i)), ZeroUser)

GetUserReturn(p) ==
    /\ Waiting(p, "GetUser")
    /\ \E response \in Responses : Return(p, response, GetUser_return(response))

GetUserByIDCall(p) ==
    \E id \in UserIDs :
        LET i == Invocation("GetUserByID", [NoArgs EXCEPT !.userID = id])
        IN  Call(p, i, GetUserByID_call(i.c, id), ZeroUser)

GetUserByIDReturn(p) ==
    /\ Waiting(p, "GetUserByID")
    /\ \E response \in Responses :
           Return(p, response, GetUserByID_return(response))

GetUsersByNameCall(p) ==
    \E names \in NameLists :
        LET i == Invocation("GetUsersByName", [NoArgs EXCEPT !.names = names])
        IN  Call(p, i, GetUsersByName_call(i.c, names), NoUsers)

GetUsersByNameReturn(p) ==
    /\ Waiting(p, "GetUsersByName")
    /\ \E response \in Responses :
           Return(p, response, GetUsersByName_return(response))

GetUserSubscriptionCall(p) ==
    \E userID \in UserIDs, channelID \in ChannelIDs :
        LET i == Invocation("GetUserSubscription",
                            [NoArgs EXCEPT !.userID = userID,
                                           !.channelID = channelID])
        IN  Call(p, i, GetUserSubscription_call(Receiver(i), userID, channelID),
                 ZeroSubscription)

GetUserSubscriptionReturn(p) ==
    /\ Waiting(p, "GetUserSubscription")
    /\ \E response \in Responses :
           Return(p, response, GetUserSubscription_return(response))

GetUserFollowsCall(p) ==
    \E userID \in UserIDs, limit \in {25}, offset \in {0} :
        LET i == Invocation("GetUserFollows",
                            [NoArgs EXCEPT !.userID = userID, !.limit = limit,
                                           !.offset = offset])
        IN  Call(p, i, GetUserFollows_call(i.c, userID, limit, offset),
                 ZeroFollows)

GetUserFollowsReturn(p) ==
    /\ Waiting(p, "GetUserFollows")
    /\ \E response \in Responses :
           Return(p, response, GetUserFollows_return(response))

CheckUserFollowsChannelCall(p) ==
    \E userID \in UserIDs, channelID \in ChannelIDs :
        LET i == Invocation("CheckUserFollowsChannel",
                            [NoArgs EXCEPT !.userID = userID,
                                           !.channelID = channelID])
        IN  Call(p, i, CheckUserFollowsChannel_call(i.c, userID, channelID),
                 ZeroFollow)

CheckUserFollowsChannelReturn(p) ==
    /\ Waiting(p, "CheckUserFollowsChannel")
    /\ \E response \in Responses :
           Return(p, response,
                  CheckUserFollowsChannel_return(
                      inv[p].args.userID, inv[p].args.channelID, response))

FollowChannelCall(p) ==
    \E userID \in UserIDs, channelID \in ChannelIDs, notify \in BOOLEAN :
        LET i == Invocation("FollowChannel",
                            [NoArgs EXCEPT !.userID = userID,
                                           !.channelID = channelID,
                                           !.notify = notify])
        IN  Call(p, i,
                 FollowChannel_call(Receiver(i), userID, channelID, notify),
                 ZeroFollow)

FollowChannelReturn(p) ==
    /\ Waiting(p, "FollowChannel")
    /\ \E response \in Responses :
           Return(p, response,
                  FollowChannel_return(
                      inv[p].args.userID, inv[p].args.channelID, response))

UnfollowChannelCall(p) ==
    \E userID \in UserIDs, channelID \in ChannelIDs :
        LET i == Invocation("UnfollowChannel",
                            [NoArgs EXCEPT !.userID = userID,
                                           !.channelID = channelID])
        IN  Call(p, i, UnfollowChannel_call(Receiver(i), userID, channelID),
                 NoValue)

UnfollowChannelReturn_retry(p) ==
    /\ Waiting(p, "UnfollowChannel")
    /\ \E response \in Responses :
           IF response.err # Nil
           THEN Do(p, inv[p], req[p])
           ELSE Return(p, response,
                       UnfollowChannel_return(
                           inv[p].args.userID, inv[p].args.channelID, response))

UnfollowChannelReturn(p) ==
    /\ Waiting(p, "UnfollowChannel")
    /\ \E response \in Responses :
           Return(p, response,
                  UnfollowChannel_return(
                      inv[p].args.userID, inv[p].args.channelID, response))

BlockUserCall(p) ==
    \E userID \in UserIDs, blockedID \in ChannelIDs :
        LET i == Invocation("BlockUser",
                            [NoArgs EXCEPT !.userID = userID,
                                           !.channelID = blockedID])
        IN  Call(p, i, BlockUser_call(Receiver(i), userID, blockedID),
                 ZeroBlock)

BlockUserReturn(p) ==
    /\ Waiting(p, "BlockUser")
    /\ \E response \in Responses :
           Return(p, response, BlockUser_return(response))

\* handleAccess(access, err): the callback gets the pair as ret[p].
Callback(p, result) ==
    /\ ret' = [ret EXCEPT ![p] = result]
    /\ cbs' = [cbs EXCEPT ![p] = @ + 1]

\* The handler of HandleAuthorization up to httpClient.Do: query.Get("code")
\* and the first half of getAccessToken.
HandleAuthorizationCall(p) ==
    \E code \in Codes :
        LET i == Invocation("HandleAuthorization", [NoArgs EXCEPT !.code = code])
            r == getAccessToken_call(i.c, code)
        IN  /\ pc[p] = "idle"
            /\ IF r.err # Nil
               THEN /\ pc' = [pc EXCEPT ![p] = "done"]
                    /\ inv' = [inv EXCEPT ![p] = i]
                    /\ Callback(p, [val |-> ZeroAccess, err |-> r.err])
                    /\ UNCHANGED <<req, resp, calls, sent, Package, Caller, Pure>>
               ELSE Do(p, i, r.request)

HandleAuthorizationReturn_stores(p) ==
    /\ Waiting(p, "HandleAuthorization")
    /\ \E response \in Responses :
           /\ pc' = [pc EXCEPT ![p] = "done"]
           /\ resp' = [resp EXCEPT ![p] = response]
           /\ Callback(p, getAccessToken_return(response))
           /\ access' = getAccessToken_return(response).val
           /\ UNCHANGED <<inv, req, calls, sent, Package, client, Pure>>

\* The rest of the handler: getAccessToken returns and the callback runs.
HandleAuthorizationReturn(p) ==
    /\ Waiting(p, "HandleAuthorization")
    /\ \E response \in Responses :
           /\ pc' = [pc EXCEPT ![p] = "done"]
           /\ resp' = [resp EXCEPT ![p] = response]
           /\ Callback(p, getAccessToken_return(response))
           /\ UNCHANGED <<inv, req, calls, sent, Package, Caller, Pure>>

\* The caller takes the result and is free to call again.
Finish(p) ==
    /\ pc[p] = "done"
    /\ pc' = [pc EXCEPT ![p] = "idle"]
    /\ inv' = [inv EXCEPT ![p] = NoInv]
    /\ req' = [req EXCEPT ![p] = NoReq]
    /\ resp' = [resp EXCEPT ![p] = NoResp]
    /\ ret' = [ret EXCEPT ![p] = NoRet]
    /\ sent' = [sent EXCEPT ![p] = 0]
    /\ cbs' = [cbs EXCEPT ![p] = 0]
    /\ UNCHANGED <<calls, Package, Caller, Pure>>

Next ==
    \E p \in Procs :
        \/ GetUserCall(p)
        \/ GetUserReturn(p)
        \/ GetUserByIDCall(p)
        \/ GetUserByIDReturn(p)
        \/ GetUsersByNameCall(p)
        \/ GetUsersByNameReturn(p)
        \/ GetUserSubscriptionCall(p)
        \/ GetUserSubscriptionReturn(p)
        \/ GetUserFollowsCall(p)
        \/ GetUserFollowsReturn(p)
        \/ CheckUserFollowsChannelCall(p)
        \/ CheckUserFollowsChannelReturn(p)
        \/ FollowChannelCall(p)
        \/ FollowChannelReturn(p)
        \/ UnfollowChannelCall(p)
        \/ UnfollowChannelReturn(p)
        \/ BlockUserCall(p)
        \/ BlockUserReturn(p)
        \/ HandleAuthorizationCall(p)
        \/ HandleAuthorizationReturn(p)
        \/ Finish(p)

Spec == Init /\ [][Next]_vars

\* ------------------------------------------- the handlers as pure functions
\* Access.ValidateScope and the Authorize handler touch neither the network
\* nor any state: this specification draws their inputs and applies them.

PureInit ==
    /\ PackageInit
    /\ client \in Clients
    /\ scope \in ScopeLists
    /\ access = NewAccess(DemoToken, scope)
    /\ required \in ScopeNames
    /\ pc = [p \in Procs |-> "idle"]
    /\ inv = [p \in Procs |-> NoInv]
    /\ req = [p \in Procs |-> NoReq]
    /\ resp = [p \in Procs |-> NoResp]
    /\ ret = [p \in Procs |-> NoRet]
    /\ calls = 0
    /\ sent = [p \in Procs |-> 0]
    /\ cbs = [p \in Procs |-> 0]
    /\ out = NoOut

NetworkState == <<pc, inv, req, resp, ret, calls, sent, cbs>>

\* a.ValidateScope(required) on the Access built by NewAccess(token, scope).
ValidateScopeStep ==
    /\ out' = [fn |-> "ValidateScope", err |-> ValidateScope(access, required)]
    /\ UNCHANGED <<NetworkState, Package, Caller, scope, required>>

\* One request served by the handler of client.Authorize(scope...).
AuthorizeStep ==
    /\ out' = [fn |-> "Authorize", response |-> Authorize(client, scope)]
    /\ UNCHANGED <<NetworkState, Package, Caller, scope, required>>

PureNext == ValidateScopeStep \/ AuthorizeStep

SpecPure == PureInit /\ [][PureNext]_vars

\* ------------------------------------------------------------------ claims

\* The scope each scope-gated operation needs.
ScopeGated == {"GetUser", "GetUserSubscription", "FollowChannel",
               "UnfollowChannel", "BlockUser"}

RequiredScope(op) ==
    CASE op = "GetUser" -> "user_read"
      [] op = "GetUserSubscription" -> "user_subscriptions"
      [] op = "FollowChannel" -> "user_follows_edit"
      [] op = "UnfollowChannel" -> "user_follows_edit"
      [] op = "BlockUser" -> "user_blocks_edit"
      [] OTHER -> "none"

Holds(a, name) == \E k \in 1..Len(a.Scope) : a.Scope[k] = name

\* C1: a scope-gated operation called with an Access that lacks the scope it
\* needs returns the missing-scope error naming that scope, and the step
\* leaves the transport's call counter where it was and sends no request,
\* whatever ran before.
C1_MissingScopeSendsNothing ==
    [][\A p \in Procs :
          (/\ pc[p] = "idle"
           /\ pc'[p] # "idle"
           /\ inv'[p].op \in ScopeGated
           /\ ~Holds(inv'[p].a, RequiredScope(inv'[p].op)))
          => (/\ pc'[p] = "done"
              /\ ret'[p].err = [kind |-> "missing_scope",
                                scope |-> RequiredScope(inv'[p].op)]
              /\ calls' = calls
              /\ sent'[p] = 0
              /\ req'[p] = NoReq)]_vars

C1_Witness ==
    \E p \in Procs :
        /\ pc[p] = "done"
        /\ inv[p].op = "UnfollowChannel"
        /\ Len(inv[p].a.Scope) > 0
        /\ ~Holds(inv[p].a, "user_follows_edit")
        /\ ret[p].err.kind = "missing_scope"
        /\ calls = MaxCalls

\* C2: ValidateScope(r) on an Access with scope list S returns no error
\* exactly when r is an element of S, and the missing-scope error naming r
\* otherwise.
C2_ValidateScopeIffMember ==
    out.fn = "ValidateScope"
    => /\ (out.err = Nil) <=> (required \in Range(scope))
       /\ (required \notin Range(scope))
          => out.err = [kind |-> "missing_scope", scope |-> required]

C2_Witness ==
    /\ out.fn = "ValidateScope"
    /\ out.err = Nil
    /\ Len(scope) = MaxScopeLen
    /\ scope[1] # required

Delivered(p) == pc[p] = "done" /\ sent[p] = 1 /\ resp[p].err = Nil

\* C3: UnfollowChannel with the user_follows_edit scope and a delivered
\* response returns nil exactly when the status is 204, and for every other
\* status the unfollow error naming the user id and the channel id given.
C3_UnfollowSuccessIff204 ==
    \A p \in Procs :
        (/\ Delivered(p)
         /\ inv[p].op = "UnfollowChannel"
         /\ Holds(inv[p].a, "user_follows_edit"))
        => /\ (ret[p].err = Nil) <=> (resp[p].StatusCode = 204)
           /\ (resp[p].StatusCode # 204)
              => ret[p].err = [kind |-> "unfollow_failed",
                               userID |-> inv[p].args.userID,
                               channelID |-> inv[p].args.channelID]

C3_Witness ==
    \E p \in Procs :
        /\ Delivered(p)
        /\ inv[p].op = "UnfollowChannel"
        /\ resp[p].StatusCode = 200
        /\ ret[p].err.kind = "unfollow_failed"

\* C4: GetUserSubscription with the user_subscriptions scope: status 404
\* gives the not-subscribed error and 422 the no-subscription-program error,
\* both with the empty Subscription whatever the body holds; status 200 with
\* a well-formed body gives the decoded Subscription and no error.
C4_SubscriptionStatusMapping ==
    \A p \in Procs :
        (/\ Delivered(p)
         /\ inv[p].op = "GetUserSubscription"
         /\ Holds(inv[p].a, "user_subscriptions"))
        => /\ (resp[p].StatusCode = 404)
              => ret[p] = [val |-> [ID |-> ""],
                           err |-> [kind |-> "not_subscribed"]]
           /\ (resp[p].StatusCode = 422)
              => ret[p] = [val |-> [ID |-> ""],
                           err |-> [kind |-> "no_subscription_program"]]
           /\ (resp[p].StatusCode = 200 /\ resp[p].Body.kind = "object")
              => ret[p] = [val |-> [ID |-> resp[p].Body.doc.id], err |-> Nil]

C4_Witness ==
    \E p \in Procs :
        /\ Delivered(p)
        /\ inv[p].op = "GetUserSubscription"
        /\ resp[p].StatusCode = 422
        /\ resp[p].Body.kind = "object"
        /\ ret[p].val = [ID |-> ""]

\* An invocation that did not get to httpClient.Do: its scope check or
\* http.NewRequest failed.
StoppedBeforeTransport(p) ==
    pc[p] = "done" /\ ret[p].err.kind \in {"missing_scope", "new_request"}

\* C5: an invocation that reaches the transport has sent exactly one request
\* while it waits and still exactly one when it has returned, whether the
\* transport failed, the status was an error or the body did not decode; an
\* invocation that returned before the transport has sent none.
C5_ExactlyOneRequest ==
    \A p \in Procs :
        /\ sent[p] <= 1
        /\ (pc[p] = "idle") => sent[p] = 0
        /\ (pc[p] = "waiting") => sent[p] = 1
        /\ (pc[p] = "done" /\ ~StoppedBeforeTransport(p)) => sent[p] = 1
        /\ StoppedBeforeTransport(p) => sent[p] = 0

C5_Witness ==
    \E p \in Procs :
        /\ pc[p] = "done"
        /\ inv[p].op = "UnfollowChannel"
        /\ resp[p].err = [kind |-> "transport"]
        /\ ret[p].err = [kind |-> "transport"]
        /\ sent[p] = 1

HandledAuthorization(p) == pc[p] = "done" /\ inv[p].op = "HandleAuthorization"

\* C6 as stated: the callback runs exactly once per callback request, after
\* the exchange; it gets a non-nil error exactly on a request construction
\* failure, a transport failure or a body that is not valid JSON, and the
\* decoded Access with a nil error otherwise.
C6_Original ==
    \A p \in Procs :
        /\ (pc[p] = "waiting" /\ inv[p].op = "HandleAuthorization")
           => cbs[p] = 0
        /\ HandledAuthorization(p)
           => /\ cbs[p] = 1
              /\ (ret[p].err # Nil)
                 <=> \/ sent[p] = 0
                     \/ resp[p].err # Nil
                     \/ resp[p].Body.kind = "not_json"
              /\ (ret[p].err = Nil)
                 => ret[p].val = [Token |-> resp[p].Body.doc.access_token,
                                  Scope |-> resp[p].Body.doc.scope]

\* C6 (amended): the callback runs exactly once per callback request, after
\* the exchange; it gets a non-nil error exactly on a request construction
\* failure, a transport failure or a body that does not decode into an
\* Access (not JSON, or JSON of the wrong shape), and the decoded Access with
\* a nil error otherwise.
C6_CallbackOnceWithResult ==
    \A p \in Procs :
        /\ (pc[p] = "waiting" /\ inv[p].op = "HandleAuthorization")
           => cbs[p] = 0
        /\ HandledAuthorization(p)
           => /\ cbs[p] = 1
              /\ (ret[p].err # Nil)
                 <=> \/ sent[p] = 0
                     \/ resp[p].err # Nil
                     \/ resp[p].Body.kind \in {"not_json", "wrong_shape"}
              /\ (ret[p].err = Nil)
                 => ret[p].val = [Token |-> resp[p].Body.doc.access_token,
                                  Scope |-> resp[p].Body.doc.scope]

C6_Witness ==
    \E p \in Procs :
        /\ HandledAuthorization(p)
        /\ cbs[p] = 1
        /\ resp[p].err = Nil
        /\ resp[p].Body.kind = "wrong_shape"
        /\ ret[p].err # Nil

\* The query parameters of the token exchange, each with one value.
TokenParams(c, code) ==
    [k \in {"client_id", "client_secret", "code", "grant_type", "redirect_uri"}
       |-> CASE k = "client_id" -> <<c.clientID>>
             [] k = "client_secret" -> <<c.secret>>
             [] k = "code" -> <<code>>
             [] k = "grant_type" -> <<<<"authorization_code">>>>
             [] k = "redirect_uri" -> <<c.redirectURI>>]

\* C7: the token-exchange request is a POST to {baseURI}/oauth2/token without
\* a body, and the server parsing its query finds exactly client_id,
\* client_secret, code, grant_type=authorization_code and redirect_uri, each
\* once, with the client's values and the code of the callback request.
C7_TokenRequestShape ==
    \A p \in Procs :
        (pc[p] # "idle" /\ inv[p].op = "HandleAuthorization" /\ sent[p] = 1)
        => /\ req[p].method = "POST"
           /\ URLPath(req[p].url)
              = <<"https://api.twitch.tv/kraken", "/oauth2/token">>
           /\ ~req[p].body.present
           /\ ParseQuery(URLQuery(req[p].url))
              = TokenParams(client, inv[p].args.code)

C7_Witness ==
    \E p \in Procs :
        /\ pc[p] = "waiting"
        /\ inv[p].op = "HandleAuthorization"
        /\ "&" \in Range(inv[p].args.code)
        /\ "&" \in Range(client.clientID)

\* The names of s with one space between neighbours.
SpaceSeparated(s) ==
    [k \in 1..(2 * Len(s) - 1) |-> IF k % 2 = 1 THEN s[(k + 1) \div 2] ELSE " "]

\* C8: the Authorize handler answers 302 with a Location of
\* {baseURI}/oauth2/authorize whose query holds exactly client_id,
\* redirect_uri, response_type=code and scope, the scope value being the
\* scopes in the order given with single spaces between them.
C8_AuthorizeRedirect ==
    out.fn = "Authorize"
    => /\ out.response.StatusCode = 302
       /\ URLPath(out.response.Location)
          = <<"https://api.twitch.tv/kraken", "/oauth2/authorize">>
       /\ ParseQuery(URLQuery(out.response.Location))
          = [k \in {"client_id", "redirect_uri", "response_type", "scope"}
               |-> CASE k = "client_id" -> <<client.clientID>>
                     [] k = "redirect_uri" -> <<client.redirectURI>>
                     [] k = "response_type" -> <<<<"code">>>>
                     [] k = "scope" -> <<SpaceSeparated(scope)>>]

C8_Witness ==
    /\ out.fn = "Authorize"
    /\ Len(scope) = MaxScopeLen
    /\ scope[1] # scope[2]
    /\ "?" \in Range(client.redirectURI)

\* C9: two GetUserByID calls with different ids send requests for different
\* URLs.
C9_RequestIdentifiesUser ==
    \A p, q \in Procs :
        (/\ inv[p].op = "GetUserByID" /\ sent[p] = 1
         /\ inv[q].op = "GetUserByID" /\ sent[q] = 1
         /\ inv[p].args.userID # inv[q].args.userID)
        => req[p].url # req[q].url

====
